---- MODULE Spec2Model ----
(***************************************************************************)
(* MSP430 instruction decoder (src/instructions.py) as a state machine:    *)
(* the host hands Instruction.decode a byte buffer and an address, and the *)
(* decoder answers with an Instruction, with None, or with an exception.   *)
(*                                                                         *)
(* Python values are modelled as follows.  An optional value is a sequence *)
(* of length at most one: None is <<>>, and a present value v is <<v>>.    *)
(* A bytes object is a sequence of integers 0..255.  Python lists are      *)
(* 0-based, so list[i] is written Index(list, i).  Python integers are     *)
(* unbounded and so are the model's.                                       *)
(***************************************************************************)
EXTENDS Integers, Sequences, FiniteSets, TLC

VARIABLES data, address, pc, result, label_map, emitter, returned

vars == <<data, address, pc, result, label_map, emitter, returned>>

-----------------------------------------------------------------------------
(* Python values *)

None == <<>>

Some(v) == <<v>>

Val(o) == o[1]

Index(list, i) == list[i + 1]

InRange(list, i) == i >= 0 /\ i < Len(list)

(* The outcome of a call: a returned value, or a raised exception. *)
Return(v) == [exc |-> "", ret |-> v]

Raise(e) == [exc |-> e, ret |-> None]

-----------------------------------------------------------------------------
(* Integer operators of the code: & | >> << on non-negative integers *)

RECURSIVE BitAnd(_, _)
BitAnd(a, b) ==
    IF a = 0 \/ b = 0 THEN 0
    ELSE (a % 2) * (b % 2) + 2 * BitAnd(a \div 2, b \div 2)

RECURSIVE BitOr(_, _)
BitOr(a, b) ==
    IF a = 0 THEN b
    ELSE IF b = 0 THEN a
    ELSE (IF a % 2 = 1 \/ b % 2 = 1 THEN 1 ELSE 0)
         + 2 * BitOr(a \div 2, b \div 2)

Shr(a, n) == a \div (2 ^ n)

Shl(a, n) == a * (2 ^ n)

(* struct.unpack('<H', data[offset:offset+2])[0], offset 0-based *)
UnpackH(bytes, offset) == Index(bytes, offset) + 256 * Index(bytes, offset + 1)

(* data[n:] and data[:n] *)
SliceFrom(bytes, n) == SubSeq(bytes, n + 1, Len(bytes))

SliceTo(bytes, n) == SubSeq(bytes, 1, IF n < Len(bytes) THEN n ELSE Len(bytes))

-----------------------------------------------------------------------------
(* Tables of src/instructions.py *)

TYPE1_INSTRUCTIONS ==
    <<"mov", "add", "addc", "subc", "sub", "cmp",
      "dadd", "bit", "bic", "bis", "xor", "and">>

TYPE2_INSTRUCTIONS ==
    <<"rrc", "swpb", "rra", "sxt", "push", "call", "reti", "br">>

TYPE3_INSTRUCTIONS ==
    <<"jnz", "jz", "jlo", "jhs", "jn", "jge", "jl", "jmp">>

In(x, list) == \E i \in 1..Len(list) : list[i] = x

(* InstructionNames with the entries of opcodes 7 and 8 exchanged. *)
InstructionNames_Swapped ==
    << None,
       <<"rrc", "swpb", "rra", "sxt", "push", "call", "reti">>,
       <<"jnz", "jz", "jlo", "jhs">>,
       <<"jn", "jge", "jl", "jmp">>,
       Some("mov"), Some("add"), Some("addc"), Some("sub"),
       Some("subc"), Some("cmp"), Some("dadd"), Some("bit"),
       Some("bic"), Some("bis"), Some("xor"), Some("and") >>

(* Entries 1..3 are lists selected from by a sub-field; entries 0 and      *)
(* 4..15 are the optional mnemonic itself.                                 *)
InstructionNames ==
    << None,
       <<"rrc", "swpb", "rra", "sxt", "push", "call", "reti">>,
       <<"jnz", "jz", "jlo", "jhs">>,
       <<"jn", "jge", "jl", "jmp">>,
       Some("mov"), Some("add"), Some("addc"), Some("subc"),
       Some("sub"), Some("cmp"), Some("dadd"), Some("bit"),
       Some("bic"), Some("bis"), Some("xor"), Some("and") >>

InstructionMask == [o \in {1, 2, 3} |-> IF o = 1 THEN 896 ELSE 3072]

(* InstructionMaskShift with opcode 1 shifted by 8, not 7. *)
InstructionMaskShift_Off == [o \in {1, 2, 3} |-> IF o = 1 THEN 8 ELSE 10]

InstructionMaskShift == [o \in {1, 2, 3} |-> IF o = 1 THEN 7 ELSE 10]

REGISTER_MODE == 0
INDEXED_MODE == 1
INDIRECT_REGISTER_MODE == 2
INDIRECT_AUTOINCREMENT_MODE == 3
SYMBOLIC_MODE == 4
ABSOLUTE_MODE == 5
IMMEDIATE_MODE == 6
CONSTANT_MODE0 == 7
CONSTANT_MODE1 == 8
CONSTANT_MODE2 == 9
CONSTANT_MODE4 == 10
CONSTANT_MODE8 == 11
CONSTANT_MODE_NEG1 == 12
OFFSET == 13

OperandLengths == <<0, 2, 0, 0, 2, 2, 2, 0, 0, 0, 0, 0, 0, 0>>

Registers ==
    <<"pc", "sp", "sr", "cg", "r4", "r5", "r6", "r7",
      "r8", "r9", "r10", "r11", "r12", "r13", "r14", "r15">>

-----------------------------------------------------------------------------
(* class Operand *)

Operand(mode, target, width, value, operand_length) ==
    [mode |-> mode, target |-> target, width |-> width,
     value |-> value, operand_length |-> operand_length]

(* width = 1 if (instruction & 0x40) >> 6 else 2 *)
OperandWidth(instruction) ==
    IF Shr(BitAnd(instruction, 64), 6) # 0 THEN 1 ELSE 2

(* ResolveSourceMode with the two sr constants exchanged. *)
ResolveSourceMode_SrSwapped(target, mode) ==
    IF target = Some("pc") THEN
        IF mode = INDEXED_MODE THEN SYMBOLIC_MODE
        ELSE IF mode = INDIRECT_AUTOINCREMENT_MODE THEN IMMEDIATE_MODE
        ELSE mode
    ELSE IF target = Some("cg") THEN
        IF mode = REGISTER_MODE THEN CONSTANT_MODE0
        ELSE IF mode = INDEXED_MODE THEN CONSTANT_MODE1
        ELSE IF mode = INDIRECT_REGISTER_MODE THEN CONSTANT_MODE2
        ELSE CONSTANT_MODE_NEG1
    ELSE IF target = Some("sr") THEN
        IF mode = INDEXED_MODE THEN ABSOLUTE_MODE
        ELSE IF mode = INDIRECT_REGISTER_MODE THEN CONSTANT_MODE8
        ELSE IF mode = INDIRECT_AUTOINCREMENT_MODE THEN CONSTANT_MODE4
        ELSE mode
    ELSE mode

(* The register-dependent re-interpretation of the source mode. *)
ResolveSourceMode(target, mode) ==
    IF target = Some("pc") THEN
        IF mode = INDEXED_MODE THEN SYMBOLIC_MODE
        ELSE IF mode = INDIRECT_AUTOINCREMENT_MODE THEN IMMEDIATE_MODE
        ELSE mode
    ELSE IF target = Some("cg") THEN
        IF mode = REGISTER_MODE THEN CONSTANT_MODE0
        ELSE IF mode = INDEXED_MODE THEN CONSTANT_MODE1
        ELSE IF mode = INDIRECT_REGISTER_MODE THEN CONSTANT_MODE2
        ELSE CONSTANT_MODE_NEG1
    ELSE IF target = Some("sr") THEN
        IF mode = INDEXED_MODE THEN ABSOLUTE_MODE
        ELSE IF mode = INDIRECT_REGISTER_MODE THEN CONSTANT_MODE4
        ELSE IF mode = INDIRECT_AUTOINCREMENT_MODE THEN CONSTANT_MODE8
        ELSE mode
    ELSE mode

(* BranchTarget without the shift that turns words into bytes. *)
BranchTarget_NoShift(instruction) ==
    LET branch_target == BitAnd(instruction, 1023)
    IN  IF BitAnd(branch_target, 1536) # 0
        THEN BitOr(branch_target, 63488) - 65536
        ELSE branch_target

(* The signed byte offset of a jump: bits 9-0 shifted left once, made      *)
(* negative when the test of the shifted value against 0x600 is non-zero.  *)
BranchTarget(instruction) ==
    LET branch_target == Shl(BitAnd(instruction, 1023), 1)
    IN  IF BitAnd(branch_target, 1536) # 0
        THEN BitOr(branch_target, 63488) - 65536
        ELSE branch_target

SourceOperandDecode(instr_type, instruction, addr) ==
    LET width  == IF instr_type = 3 THEN None
                  ELSE Some(OperandWidth(instruction))
        raw    == IF instr_type = 3 THEN OFFSET
                  ELSE Shr(BitAnd(instruction, 48), 4)
        target == IF instr_type = 2
                  THEN Some(Index(Registers, BitAnd(instruction, 15)))
                  ELSE IF instr_type = 1
                  THEN Some(Index(Registers, Shr(BitAnd(instruction, 3840), 8)))
                  ELSE None
        mode   == ResolveSourceMode(target, raw)
        operand_length == Index(OperandLengths, mode)
    IN  IF instr_type = 3
        THEN Operand(mode, target, width,
                     Some(addr + 2 + BranchTarget(instruction)), operand_length)
        ELSE Operand(mode, target, width, None, operand_length)

DestOperandDecode(instr_type, instruction, addr) ==
    IF instr_type # 1 THEN None
    ELSE
        LET width  == Some(OperandWidth(instruction))
            target == Some(Index(Registers, BitAnd(instruction, 15)))
            raw    == Shr(BitAnd(instruction, 128), 7)
            mode   == IF target = Some("sr") /\ raw = INDEXED_MODE
                      THEN ABSOLUTE_MODE ELSE raw
        IN  Some(Operand(mode, target, width, None,
                         Index(OperandLengths, mode)))

-----------------------------------------------------------------------------
(* class Instruction *)

Instruction(mnemonic, type_, src, dst, length, emulated) ==
    [mnemonic |-> mnemonic, type |-> type_, src |-> src, dst |-> dst,
     length |-> length, emulated |-> emulated]

(* The mnemonic the opcode tables give the first word: an optional name,   *)
(* or IndexError when the sub-field indexes past the end of its list.      *)
LookupMnemonic(instruction) ==
    LET opcode == Shr(BitAnd(instruction, 61440), 12)
    IN  IF opcode \in DOMAIN InstructionMask
           /\ opcode \in DOMAIN InstructionMaskShift
        THEN LET names == Index(InstructionNames, opcode)
                 i == Shr(BitAnd(instruction, InstructionMask[opcode]),
                          InstructionMaskShift[opcode])
             IN  IF InRange(names, i) THEN Return(Some(Index(names, i)))
                 ELSE Raise("IndexError")
        ELSE Return(Index(InstructionNames, opcode))

InstructionType(mnemonic) ==
    IF In(mnemonic, TYPE1_INSTRUCTIONS) THEN 1
    ELSE IF In(mnemonic, TYPE2_INSTRUCTIONS) THEN 2
    ELSE 3

(* InstructionLength that leaves the destination's extra word out. *)
InstructionLength_NoDst(src, dst) == 2 + src.operand_length

(* length = 2 + src.operand_length + (dst.operand_length if dst else 0) *)
InstructionLength(src, dst) ==
    2 + src.operand_length
      + (IF dst # None THEN Val(dst).operand_length ELSE 0)

(* The operands with their extra words read: the source's word first. *)
ReadSourceValue(bytes, src) ==
    IF src.operand_length # 0
    THEN [src EXCEPT !.value = Some(UnpackH(bytes, 2))]
    ELSE src

(* ReadDestValue that always reads the word following the opcode word. *)
ReadDestValue_SameWord(bytes, src, dst) ==
    IF dst # None /\ Val(dst).operand_length # 0
    THEN Some([Val(dst) EXCEPT !.value = Some(UnpackH(bytes, 2))])
    ELSE dst

ReadDestValue(bytes, src, dst) ==
    IF dst # None /\ Val(dst).operand_length # 0
    THEN Some([Val(dst) EXCEPT !.value =
                 Some(UnpackH(bytes, IF src.operand_length # 0 THEN 4 ELSE 2))])
    ELSE dst

(* IsEmulatedBr that recognises a register-mode destination only. *)
IsEmulatedBr_RegisterOnly(mnemonic, dst) ==
    /\ mnemonic = "mov"
    /\ Val(dst).target = Some("pc")
    /\ Val(dst).mode = REGISTER_MODE

(* The emulated-instruction test applied after the operands are read. *)
IsEmulatedBr(mnemonic, dst) ==
    mnemonic = "mov" /\ Val(dst).target = Some("pc")

(* InsufficientBytes that also rejects a buffer of exactly the length. *)
InsufficientBytes_OffByOne(bytes, length) == Len(bytes) <= length

(* len(data) < length *)
InsufficientBytes(bytes, length) == Len(bytes) < length

(* RetInstruction without the emulated mark. *)
RetInstruction_NotEmulated == Instruction("ret", None, None, None, 2, FALSE)

(* cls('ret', emulated=True): the other fields take __init__'s defaults. *)
RetInstruction == Instruction("ret", None, None, None, 2, TRUE)

DecodeOperands(bytes, addr, instruction, mnemonic) ==
    LET type_  == InstructionType(mnemonic)
        src    == SourceOperandDecode(type_, instruction, addr)
        dst    == DestOperandDecode(type_, instruction, addr)
        length == InstructionLength(src, dst)
    IN  IF InsufficientBytes(bytes, length) THEN Return(None)
        ELSE LET emulated == IsEmulatedBr(mnemonic, dst)
             IN  Return(Some(Instruction(
                     IF emulated THEN "br" ELSE mnemonic,
                     Some(type_),
                     Some(ReadSourceValue(bytes, src)),
                     ReadDestValue(bytes, src, dst),
                     length, emulated)))

InstructionDecode(bytes, addr) ==
    IF Len(bytes) < 2 THEN Return(None)
    ELSE
        LET instruction == UnpackH(bytes, 0)
        IN  IF instruction = 16688
            THEN Return(Some(RetInstruction))
            ELSE LET looked == LookupMnemonic(instruction)
                 IN  IF looked.exc # "" THEN looked
                     ELSE IF looked.ret = None THEN Return(None)
                     ELSE DecodeOperands(bytes, addr, instruction,
                                         Val(looked.ret))

-----------------------------------------------------------------------------
(* Instruction.generate_tokens *)

InstructionTextToken(type, text, value) ==
    [type |-> type, text |-> text, value |-> value]

HexDigit ==
    <<"0", "1", "2", "3", "4", "5", "6", "7",
      "8", "9", "a", "b", "c", "d", "e", "f">>

RECURSIVE HexNat(_)
HexNat(n) ==
    IF n < 16 THEN Index(HexDigit, n)
    ELSE HexNat(n \div 16) \o Index(HexDigit, n % 16)

(* hex(value) *)
Hex(v) == IF v < 0 THEN "-0x" \o HexNat(0 - v) ELSE "0x" \o HexNat(v)

RECURSIVE Spaces(_)
Spaces(n) == IF n <= 0 THEN "" ELSE " " \o Spaces(n - 1)

(* '{:7s}'.format(mnemonic) *)
Format7(str) == str \o Spaces(7 - Len(str))

(* OperandTokens[mode](reg, value) *)
OperandTokens(mode, reg, value) ==
    CASE mode = REGISTER_MODE ->
           << InstructionTextToken("RegisterToken", Val(reg), None) >>
      [] mode = INDEXED_MODE ->
           << InstructionTextToken("IntegerToken", Hex(Val(value)), value),
              InstructionTextToken("TextToken", "(", None),
              InstructionTextToken("RegisterToken", Val(reg), None),
              InstructionTextToken("TextToken", ")", None) >>
      [] mode = INDIRECT_REGISTER_MODE ->
           << InstructionTextToken("TextToken", "@", None),
              InstructionTextToken("RegisterToken", Val(reg), None) >>
      [] mode = INDIRECT_AUTOINCREMENT_MODE ->
           << InstructionTextToken("TextToken", "@", None),
              InstructionTextToken("RegisterToken", Val(reg), None),
              InstructionTextToken("TextToken", "+", None) >>
      [] mode = SYMBOLIC_MODE ->
           << InstructionTextToken("CodeRelativeAddressToken",
                                   Hex(Val(value)), value) >>
      [] mode = ABSOLUTE_MODE ->
           << InstructionTextToken("TextToken", "&", None),
              InstructionTextToken("PossibleAddressToken",
                                   Hex(Val(value)), value) >>
      [] mode = IMMEDIATE_MODE ->
           << InstructionTextToken("PossibleAddressToken",
                                   Hex(Val(value)), value) >>
      [] mode = CONSTANT_MODE0 ->
           << InstructionTextToken("IntegerToken", "0", Some(0)) >>
      [] mode = CONSTANT_MODE1 ->
           << InstructionTextToken("IntegerToken", "1", Some(1)) >>
      [] mode = CONSTANT_MODE2 ->
           << InstructionTextToken("IntegerToken", "2", Some(2)) >>
      [] mode = CONSTANT_MODE4 ->
           << InstructionTextToken("IntegerToken", "4", Some(4)) >>
      [] mode = CONSTANT_MODE8 ->
           << InstructionTextToken("IntegerToken", "8", Some(8)) >>
      [] mode = CONSTANT_MODE_NEG1 ->
           << InstructionTextToken("IntegerToken", "-1", Some(0 - 1)) >>
      [] mode = OFFSET ->
           << InstructionTextToken("PossibleAddressToken",
                                   Hex(Val(value)), value) >>

(* TokenMnemonic that tests the width against 2. *)
TokenMnemonic_WordSuffix(instr) ==
    IF instr.src # None /\ Val(instr.src).width = Some(2)
    THEN instr.mnemonic \o ".b" ELSE instr.mnemonic

(* mnemonic += '.b' when there is a source of width 1 *)
TokenMnemonic(instr) ==
    IF instr.src # None /\ Val(instr.src).width = Some(1)
    THEN instr.mnemonic \o ".b" ELSE instr.mnemonic

GenerateTokens(instr) ==
    LET first == << InstructionTextToken("TextToken",
                                         Format7(TokenMnemonic(instr)), None) >>
        SrcTokens == OperandTokens(Val(instr.src).mode, Val(instr.src).target,
                                   Val(instr.src).value)
        DstTokens == OperandTokens(Val(instr.dst).mode, Val(instr.dst).target,
                                   Val(instr.dst).value)
    IN  IF instr.type = Some(1)
        THEN first \o SrcTokens
                   \o << InstructionTextToken("TextToken", ",", None) >>
                   \o DstTokens
        ELSE IF instr.type = Some(2) \/ instr.type = Some(3)
        THEN first \o SrcTokens
        ELSE first

-----------------------------------------------------------------------------
(* MSP430.perform_get_instruction_info and perform_get_instruction_text   *)

Branch(type, target) == [type |-> type, target |-> target]

InstructionInfo(length, branches) == [length |-> length, branches |-> branches]

(* InfoBranches whose fallthrough is the jump's own address. *)
InfoBranches_FallthroughAtJump(instr, addr) ==
    IF instr.mnemonic \in {"ret", "reti"}
    THEN << Branch("FunctionReturn", None) >>
    ELSE IF instr.mnemonic \in {"jmp", "br"} /\ Val(instr.src).value # None
    THEN << Branch("UnconditionalBranch", Val(instr.src).value) >>
    ELSE IF instr.type = Some(3)
    THEN << Branch("TrueBranch", Val(instr.src).value),
            Branch("FalseBranch", Some(addr)) >>
    ELSE IF instr.mnemonic = "call" /\ Val(instr.src).value # None
    THEN << Branch("CallDestination", Val(instr.src).value) >>
    ELSE << >>

(* The branches added for a decoded instruction at addr. *)
InfoBranches(instr, addr) ==
    IF instr.mnemonic \in {"ret", "reti"}
    THEN << Branch("FunctionReturn", None) >>
    ELSE IF instr.mnemonic \in {"jmp", "br"} /\ Val(instr.src).value # None
    THEN << Branch("UnconditionalBranch", Val(instr.src).value) >>
    ELSE IF instr.type = Some(3)
    THEN << Branch("TrueBranch", Val(instr.src).value),
            Branch("FalseBranch", Some(addr + 2)) >>
    ELSE IF instr.mnemonic = "call" /\ Val(instr.src).value # None
    THEN << Branch("CallDestination", Val(instr.src).value) >>
    ELSE << >>

PerformGetInstructionInfo(decoded, addr) ==
    IF decoded.exc # "" THEN decoded
    ELSE IF decoded.ret = None THEN Return(None)
    ELSE LET instr == Val(decoded.ret)
         IN  Return(Some(InstructionInfo(instr.length,
                                         InfoBranches(instr, addr))))

PerformGetInstructionText(decoded, addr) ==
    IF decoded.exc # "" THEN decoded
    ELSE IF decoded.ret = None THEN Return(None)
    ELSE LET instr == Val(decoded.ret)
         IN  Return(Some([tokens |-> GenerateTokens(instr),
                          length |-> instr.length]))

-----------------------------------------------------------------------------
(* The IL emitter the host owns (binaryninja's LowLevelILFunction), as far *)
(* as the lifter uses it.  An expression is a record of its operation,     *)
(* size, register / flag / condition name, constant, flag group, operand   *)
(* expressions and labels.  The emitter holds the appended operations, the *)
(* labels marked (each with the number of operations appended before it),  *)
(* and the number of labels created.                                       *)

Expr(op, size, name, value, flags, args, labels) ==
    [op |-> op, size |-> size, name |-> name, value |-> value,
     flags |-> flags, args |-> args, labels |-> labels]

il_reg(size, reg) == Expr("reg", size, reg, 0, "", <<>>, <<>>)
il_const(size, value) == Expr("const", size, "", value, "", <<>>, <<>>)
il_const_pointer(size, value) ==
    Expr("const_pointer", size, "", value, "", <<>>, <<>>)
il_flag(flag) == Expr("flag", 0, flag, 0, "", <<>>, <<>>)
il_load(size, addr) == Expr("load", size, "", 0, "", <<addr>>, <<>>)
il_store(size, addr, value) ==
    Expr("store", size, "", 0, "", <<addr, value>>, <<>>)
il_set_reg(size, reg, value) ==
    Expr("set_reg", size, reg, 0, "", <<value>>, <<>>)
il_set_flag(flag, value) == Expr("set_flag", 0, flag, 0, "", <<value>>, <<>>)
il_add(size, a, b, flags) == Expr("add", size, "", 0, flags, <<a, b>>, <<>>)
il_sub(size, a, b, flags) == Expr("sub", size, "", 0, flags, <<a, b>>, <<>>)
il_and_expr(size, a, b, flags) ==
    Expr("and", size, "", 0, flags, <<a, b>>, <<>>)
il_or_expr(size, a, b, flags) ==
    Expr("or", size, "", 0, flags, <<a, b>>, <<>>)
il_xor_expr(size, a, b, flags) ==
    Expr("xor", size, "", 0, flags, <<a, b>>, <<>>)
il_not_expr(size, a) == Expr("not", size, "", 0, "", <<a>>, <<>>)
il_arith_shift_right(size, a, b, flags) ==
    Expr("asr", size, "", 0, flags, <<a, b>>, <<>>)
il_rotate_right_carry(size, a, b, carry, flags) ==
    Expr("rrc", size, "", 0, flags, <<a, b, carry>>, <<>>)
il_rotate_left(size, a, b) == Expr("rol", size, "", 0, "", <<a, b>>, <<>>)
il_sign_extend(size, a, flags) ==
    Expr("sx", size, "", 0, flags, <<a>>, <<>>)
il_compare_equal(size, a, b) ==
    Expr("cmp_e", size, "", 0, "", <<a, b>>, <<>>)
il_flag_condition(cond) == Expr("flag_cond", 0, cond, 0, "", <<>>, <<>>)
il_push(size, value) == Expr("push", size, "", 0, "", <<value>>, <<>>)
il_pop(size) == Expr("pop", size, "", 0, "", <<>>, <<>>)
il_call(dest) == Expr("call", 0, "", 0, "", <<dest>>, <<>>)
il_ret(dest) == Expr("ret", 0, "", 0, "", <<dest>>, <<>>)
il_jump(dest) == Expr("jump", 0, "", 0, "", <<dest>>, <<>>)
il_goto(label) == Expr("goto", 0, "", 0, "", <<>>, <<label>>)
il_if_expr(cond, t, f) == Expr("if", 0, "", 0, "", <<cond>>, <<t, f>>)
il_no_ret == Expr("noreturn", 0, "", 0, "", <<>>, <<>>)
il_unimplemented == Expr("unimplemented", 0, "", 0, "", <<>>, <<>>)

(* MSP430.flags_written_by_flag_write_type; no flag for no write type *)
flags_written_by_flag_write_type(write_type) ==
    CASE write_type = "*" -> {"v", "n", "c", "z"}
      [] write_type = "cnv" -> {"v", "n", "c"}
      [] write_type = "cnz" -> {"c", "n", "z"}
      [] OTHER -> {}

(* LLIL_TEMP(0) *)
LLIL_TEMP0 == "temp0"

EmptyIL == [ops |-> <<>>, marks |-> <<>>, created |-> 0]

il_append(il, expr) == [il EXCEPT !.ops = Append(@, expr)]

il_mark_label(il, label) ==
    [il EXCEPT !.marks = Append(@, [label |-> label, at |-> Len(il.ops)])]

(* A label the emitter already holds for an address. *)
AddressLabel(a) == [kind |-> "address", id |-> a]

(* LowLevelILLabel(): the n-th label created during the lift. *)
FreshLabel(n) == [kind |-> "fresh", id |-> n]

(* The addresses the emitter holds a label for, relative to the address    *)
(* being lifted: none, only the next instruction's (current + 2), every    *)
(* address but that one, or every address.                                 *)
LabelMaps == {"none", "next", "others", "all"}

HasLabel(map, current, a) ==
    CASE map = "none" -> FALSE
      [] map = "next" -> a = current + 2
      [] map = "others" -> a # current + 2
      [] map = "all" -> TRUE

(* il.get_label_for_address(Architecture['msp430'], a) *)
GetLabelForAddress(map, current, a) ==
    IF HasLabel(map, current, a) THEN Some(AddressLabel(a)) ELSE None

-----------------------------------------------------------------------------
(* src/lifter.py.  A lifting routine yields the emitter it leaves behind,  *)
(* or the exception it raises before appending anything.                   *)

Lifted(il) == [exc |-> "", il |-> il]

LiftRaise(e, il) == [exc |-> e, il |-> il]

(* SourceOperandsIL has 13 entries, one for each mode below OFFSET. *)
SourceOperandsILInRange(mode) == mode >= 0 /\ mode < 13

SourceOperandsIL(mode, width, reg, value) ==
    CASE mode = REGISTER_MODE -> il_reg(width, reg)
      [] mode = INDEXED_MODE ->
           il_load(width, il_add(2, il_reg(2, reg), il_const(2, Val(value)), ""))
      [] mode = INDIRECT_REGISTER_MODE -> il_load(width, il_reg(2, reg))
      [] mode = INDIRECT_AUTOINCREMENT_MODE -> il_load(width, il_reg(2, reg))
      [] mode = SYMBOLIC_MODE ->
           il_load(width, il_add(2, il_reg(2, "pc"), il_const(2, Val(value)), ""))
      [] mode = ABSOLUTE_MODE ->
           il_load(width, il_const_pointer(2, Val(value)))
      [] mode = IMMEDIATE_MODE -> il_const(width, Val(value))
      [] mode = CONSTANT_MODE0 -> il_const(width, 0)
      [] mode = CONSTANT_MODE1 -> il_const(width, 1)
      [] mode = CONSTANT_MODE2 -> il_const(width, 2)
      [] mode = CONSTANT_MODE4 -> il_const(width, 4)
      [] mode = CONSTANT_MODE8 -> il_const(width, 8)
      [] mode = CONSTANT_MODE_NEG1 -> il_const(width, 0 - 1)

(* DestOperandsIL has 7 entries, for the modes up to IMMEDIATE_MODE. *)
DestOperandsILInRange(mode) == mode >= 0 /\ mode < 7

DestOperandsIL(mode, width, reg, value, src) ==
    CASE mode = REGISTER_MODE -> il_set_reg(2, reg, src)
      [] mode = INDEXED_MODE ->
           il_store(width,
                    il_add(2, il_reg(2, reg), il_const(2, Val(value)), ""), src)
      [] mode = INDIRECT_REGISTER_MODE -> il_unimplemented
      [] mode = INDIRECT_AUTOINCREMENT_MODE -> il_unimplemented
      [] mode = SYMBOLIC_MODE -> il_unimplemented
      [] mode = ABSOLUTE_MODE ->
           il_store(width, il_const_pointer(2, Val(value)), src)
      [] mode = IMMEDIATE_MODE ->
           il_store(width, il_const_pointer(2, Val(value)), src)

(* The table entries applied to an operand. *)
SourceIL(operand) ==
    SourceOperandsIL(operand.mode, Val(operand.width), Val(operand.target),
                     operand.value)

DestIL(operand, src) ==
    DestOperandsIL(operand.mode, Val(operand.width), Val(operand.target),
                   operand.value, src)

(* cond_branch that fixes the fallthrough label right after the if. *)
cond_branch_FallthroughFirst(il, map, current, cond, dest) ==
    LET found_t  == GetLabelForAddress(map, current, dest.value)
        indirect == found_t = None
        t        == IF indirect THEN FreshLabel(il.created) ELSE Val(found_t)
        il1      == IF indirect THEN [il EXCEPT !.created = @ + 1] ELSE il
        found_f  == GetLabelForAddress(map, current, current + 2)
        f_label_found == found_f # None
        f        == IF f_label_found THEN Val(found_f)
                    ELSE FreshLabel(il1.created)
        il2      == IF f_label_found THEN il1
                    ELSE [il1 EXCEPT !.created = @ + 1]
        il3      == il_append(il2, il_if_expr(cond, t, f))
        il4      == IF f_label_found THEN il3 ELSE il_mark_label(il3, f)
    IN  IF indirect
        THEN il_append(il_mark_label(il4, t), il_jump(dest))
        ELSE il4

(* cond_branch(il, cond, dest), dest being il.const(2, target) *)
cond_branch(il, map, current, cond, dest) ==
    LET found_t  == GetLabelForAddress(map, current, dest.value)
        indirect == found_t = None
        t        == IF indirect THEN FreshLabel(il.created) ELSE Val(found_t)
        il1      == IF indirect THEN [il EXCEPT !.created = @ + 1] ELSE il
        found_f  == GetLabelForAddress(map, current, current + 2)
        f_label_found == found_f # None
        f        == IF f_label_found THEN Val(found_f)
                    ELSE FreshLabel(il1.created)
        il2      == IF f_label_found THEN il1
                    ELSE [il1 EXCEPT !.created = @ + 1]
        il3      == il_append(il2, il_if_expr(cond, t, f))
        il4      == IF indirect
                    THEN il_append(il_mark_label(il3, t), il_jump(dest))
                    ELSE il3
    IN  IF f_label_found THEN il4 ELSE il_mark_label(il4, f)

(* jump that never asks the emitter for a label. *)
jump_NoLookup(map, current, dest) == il_jump(dest)

(* jump(il, dest): a goto when dest is a constant the emitter has a label  *)
(* for, an indirect jump otherwise.                                        *)
jump(map, current, dest) ==
    LET label == IF dest.op = "const"
                 THEN GetLabelForAddress(map, current, dest.value)
                 ELSE None
    IN  IF label = None THEN il_jump(dest) ELSE il_goto(Val(label))

(* Lifter.lift_type1(il, op, src, dst, flags): the operands of op *)
lift_type1(src, dst) == <<SourceIL(src), SourceIL(dst)>>

(* autoincrement that always steps by a word. *)
autoincrement_ByWord(il, src) ==
    IF src.mode = INDIRECT_AUTOINCREMENT_MODE
    THEN il_append(il,
             il_set_reg(2, Val(src.target),
                 il_add(2, il_reg(2, Val(src.target)), il_const(2, 2), "")))
    ELSE il

(* Lifter.autoincrement(il, src) *)
autoincrement(il, src) ==
    IF src.mode = INDIRECT_AUTOINCREMENT_MODE
    THEN il_append(il,
             il_set_reg(2, Val(src.target),
                 il_add(Val(src.width), il_reg(2, Val(src.target)),
                        il_const(2, Val(src.width)), "")))
    ELSE il

(* The lifting routines of class Lifter *)

lift_add(il, instr) ==
    LET src == Val(instr.src)
        dst == Val(instr.dst)
        operands == lift_type1(src, dst)
        value == il_add(Val(src.width), operands[1], operands[2], "*")
    IN  Lifted(autoincrement(il_append(il, DestIL(dst, value)), src))

lift_addc(il, instr) ==
    LET src == Val(instr.src)
        dst == Val(instr.dst)
        operands == lift_type1(src, dst)
        add  == il_add(Val(src.width), operands[1], operands[2], "*")
        addc == il_add(Val(src.width), add, il_flag("c"), "*")
    IN  Lifted(autoincrement(il_append(il, DestIL(dst, addc)), src))

lift_and(il, instr) ==
    LET src == Val(instr.src)
        dst == Val(instr.dst)
        operands == lift_type1(src, dst)
        value == il_and_expr(Val(src.width), operands[1], operands[2], "")
    IN  Lifted(autoincrement(il_append(il, DestIL(dst, value)), src))

lift_bic(il, instr) ==
    LET src == Val(instr.src)
        dst == Val(instr.dst)
        left  == SourceIL(dst)
        right == il_not_expr(2, SourceIL(src))
        and_expr == il_and_expr(Val(src.width), left, right, "")
    IN  Lifted(autoincrement(il_append(il, DestIL(dst, and_expr)), src))

lift_bis(il, instr) ==
    LET src == Val(instr.src)
        dst == Val(instr.dst)
        operands == lift_type1(src, dst)
        value == il_or_expr(Val(src.width), operands[1], operands[2], "")
    IN  Lifted(autoincrement(il_append(il, DestIL(dst, value)), src))

lift_bit(il, instr) ==
    LET src == Val(instr.src)
        dst == Val(instr.dst)
        operands == lift_type1(src, dst)
        value == il_and_expr(Val(src.width), operands[1], operands[2], "")
    IN  Lifted(autoincrement(il_append(il, DestIL(dst, value)), src))

lift_br(il, map, current, instr) ==
    LET src == Val(instr.src)
    IN  Lifted(autoincrement(
            il_append(il, jump(map, current, SourceIL(src))), src))

(* lift_call whose target is loaded through the incremented register. *)
lift_call_ThroughRegister(il, instr) ==
    LET src == Val(instr.src)
        reg == Val(src.target)
    IN  IF src.mode = INDIRECT_AUTOINCREMENT_MODE
        THEN LET temp_expr == il_set_reg(2, LLIL_TEMP0, il_reg(2, reg))
                 call_expr == il_call(il_load(2, il_reg(2, reg)))
                 inc_expr  == il_set_reg(2, reg,
                                  il_add(2, il_reg(2, reg), il_const(2, 2), ""))
             IN  Lifted(il_append(il_append(il_append(il, temp_expr),
                                            inc_expr), call_expr))
        ELSE IF src.mode = IMMEDIATE_MODE
        THEN Lifted(il_append(il,
                 il_call(il_const_pointer(2, Val(src.value)))))
        ELSE Lifted(il_append(il,
                 il_call(SourceOperandsIL(src.mode, 2, reg, src.value))))

lift_call(il, instr) ==
    LET src == Val(instr.src)
        reg == Val(src.target)
    IN  IF src.mode = INDIRECT_AUTOINCREMENT_MODE
        THEN LET temp_expr == il_set_reg(2, LLIL_TEMP0, il_reg(2, reg))
                 call_expr == il_call(il_load(2, il_reg(2, LLIL_TEMP0)))
                 inc_expr  == il_set_reg(2, reg,
                                  il_add(2, il_reg(2, reg), il_const(2, 2), ""))
             IN  Lifted(il_append(il_append(il_append(il, temp_expr),
                                            inc_expr), call_expr))
        ELSE IF src.mode = IMMEDIATE_MODE
        THEN Lifted(il_append(il,
                 il_call(il_const_pointer(2, Val(src.value)))))
        ELSE Lifted(il_append(il,
                 il_call(SourceOperandsIL(src.mode, 2, reg, src.value))))

(* lift_cmp that stores the difference as lift_sub does. *)
lift_cmp_WritesDest(il, instr) ==
    LET src == Val(instr.src)
        dst == Val(instr.dst)
        operands == lift_type1(src, dst)
        sub == il_sub(Val(src.width), operands[1], operands[2], "*")
    IN  Lifted(autoincrement(il_append(il, DestIL(dst, sub)), src))

lift_cmp(il, instr) ==
    LET src == Val(instr.src)
        dst == Val(instr.dst)
        operands == lift_type1(src, dst)
        sub == il_sub(Val(src.width), operands[1], operands[2], "*")
    IN  Lifted(autoincrement(il_append(il, sub), src))

lift_dadd(il, instr) == Lifted(il_append(il, il_unimplemented))

lift_dint(il, instr) == Lifted(il)

lift_hlt(il, instr) == Lifted(il_append(il, il_no_ret))

lift_jge(il, map, current, instr) ==
    Lifted(cond_branch(il, map, current, il_flag_condition("LLFC_SGE"),
                       il_const(2, Val(Val(instr.src).value))))

lift_jhs(il, map, current, instr) ==
    Lifted(cond_branch(il, map, current, il_flag_condition("LLFC_ULE"),
                       il_const(2, Val(Val(instr.src).value))))

lift_jl(il, map, current, instr) ==
    Lifted(cond_branch(il, map, current, il_flag_condition("LLFC_SLT"),
                       il_const(2, Val(Val(instr.src).value))))

lift_jlo(il, map, current, instr) ==
    Lifted(cond_branch(il, map, current, il_flag_condition("LLFC_UGT"),
                       il_const(2, Val(Val(instr.src).value))))

lift_jmp(il, map, current, instr) ==
    Lifted(il_append(il, jump(map, current,
                              il_const(2, Val(Val(instr.src).value)))))

lift_jn(il, map, current, instr) ==
    Lifted(cond_branch(il, map, current, il_compare_equal(0, il_flag("n"), il_const(0, 1)),
                       il_const(2, Val(Val(instr.src).value))))

lift_jnz(il, map, current, instr) ==
    Lifted(cond_branch(il, map, current, il_flag_condition("LLFC_NE"),
                       il_const(2, Val(Val(instr.src).value))))

lift_jz(il, map, current, instr) ==
    Lifted(cond_branch(il, map, current, il_flag_condition("LLFC_E"),
                       il_const(2, Val(Val(instr.src).value))))

(* lift_mov: nothing is appended for an immediate moved to register sp. *)
(* lift_mov without the refusal of an immediate load of sp. *)
lift_mov_NoRefusal(il, instr) ==
    LET src == Val(instr.src)
        dst == Val(instr.dst)
    IN  Lifted(autoincrement(il_append(il, DestIL(dst, SourceIL(src))), src))

lift_mov(il, instr) ==
    LET src == Val(instr.src)
        dst == Val(instr.dst)
    IN  IF /\ src.mode = IMMEDIATE_MODE
           /\ dst.target = Some("sp")
           /\ dst.mode = REGISTER_MODE
        THEN Lifted(il)
        ELSE Lifted(autoincrement(
                 il_append(il, DestIL(dst, SourceIL(src))), src))

lift_pop(il, instr) ==
    LET src == Val(instr.src)
    IN  IF ~DestOperandsILInRange(src.mode) THEN LiftRaise("IndexError", il)
        ELSE Lifted(autoincrement(il_append(il, DestIL(src, il_pop(2))), src))

lift_push(il, instr) ==
    LET src == Val(instr.src)
    IN  Lifted(autoincrement(il_append(il, il_push(2, SourceIL(src))), src))

lift_ret(il, instr) == Lifted(il_append(il, il_ret(il_pop(2))))

lift_reti(il, instr) ==
    Lifted(il_append(il_append(il, il_set_reg(2, "sr", il_pop(2))),
                     il_ret(il_pop(2))))

lift_rra(il, instr) ==
    LET src == Val(instr.src)
        rra == il_arith_shift_right(2, SourceIL(src), il_const(1, 1), "cnz")
    IN  IF ~DestOperandsILInRange(src.mode) THEN LiftRaise("IndexError", il)
        ELSE Lifted(autoincrement(il_append(il_append(il, DestIL(src, rra)),
                                   il_set_flag("v", il_const(0, 0))), src))

lift_rrc(il, instr) ==
    LET src == Val(instr.src)
        rrc == il_rotate_right_carry(2, SourceIL(src), il_const(1, 1),
                                     il_flag("c"), "*")
    IN  IF ~DestOperandsILInRange(src.mode) THEN LiftRaise("IndexError", il)
        ELSE Lifted(autoincrement(il_append(il, DestIL(src, rrc)), src))

lift_sub(il, instr) ==
    LET src == Val(instr.src)
        dst == Val(instr.dst)
        operands == lift_type1(dst, src)
        value == il_sub(Val(src.width), operands[1], operands[2], "*")
    IN  Lifted(autoincrement(il_append(il, DestIL(dst, value)), src))

lift_subc(il, instr) ==
    LET src == Val(instr.src)
        dst == Val(instr.dst)
        operands == lift_type1(src, dst)
        sub  == il_sub(Val(src.width), operands[1], operands[2], "*")
        subc == il_sub(Val(src.width), sub,
                       il_not_expr(Val(src.width), il_flag("c")), "*")
    IN  Lifted(autoincrement(il_append(il, DestIL(dst, subc)), src))

lift_swpb(il, instr) ==
    LET src == Val(instr.src)
        left == SourceOperandsIL(src.mode, 2, Val(src.target), src.value)
        rotate == il_rotate_left(2, left, il_const(1, 8))
    IN  IF ~DestOperandsILInRange(src.mode) THEN LiftRaise("IndexError", il)
        ELSE Lifted(autoincrement(il_append(il,
                 DestOperandsIL(src.mode, 2, Val(src.target), src.value,
                                rotate)), src))

lift_sxt(il, instr) ==
    LET src == Val(instr.src)
        operand == SourceOperandsIL(src.mode, 1, Val(src.target), src.value)
        sxt == il_sign_extend(2, operand, "*")
    IN  IF ~DestOperandsILInRange(src.mode) THEN LiftRaise("IndexError", il)
        ELSE Lifted(autoincrement(il_append(il,
                 DestOperandsIL(src.mode, 2, Val(src.target), src.value,
                                sxt)), src))

lift_xor(il, instr) ==
    LET src == Val(instr.src)
        dst == Val(instr.dst)
        operands == lift_type1(src, dst)
        value == il_xor_expr(Val(src.width), operands[1], operands[2], "*")
    IN  Lifted(autoincrement(il_append(il, DestIL(dst, value)), src))

(* Lifter.lift: dispatch on "lift_" + mnemonic, and an unimplemented       *)
(* marker for a mnemonic with no routine.                                  *)
Lift(il, map, current, instr) ==
    LET m == instr.mnemonic
    IN  CASE m = "add"  -> lift_add(il, instr)
          [] m = "addc" -> lift_addc(il, instr)
          [] m = "and"  -> lift_and(il, instr)
          [] m = "bic"  -> lift_bic(il, instr)
          [] m = "bis"  -> lift_bis(il, instr)
          [] m = "bit"  -> lift_bit(il, instr)
          [] m = "br"   -> lift_br(il, map, current, instr)
          [] m = "call" -> lift_call(il, instr)
          [] m = "cmp"  -> lift_cmp(il, instr)
          [] m = "dadd" -> lift_dadd(il, instr)
          [] m = "dint" -> lift_dint(il, instr)
          [] m = "hlt"  -> lift_hlt(il, instr)
          [] m = "jge"  -> lift_jge(il, map, current, instr)
          [] m = "jhs"  -> lift_jhs(il, map, current, instr)
          [] m = "jl"   -> lift_jl(il, map, current, instr)
          [] m = "jlo"  -> lift_jlo(il, map, current, instr)
          [] m = "jmp"  -> lift_jmp(il, map, current, instr)
          [] m = "jn"   -> lift_jn(il, map, current, instr)
          [] m = "jnz"  -> lift_jnz(il, map, current, instr)
          [] m = "jz"   -> lift_jz(il, map, current, instr)
          [] m = "mov"  -> lift_mov(il, instr)
          [] m = "pop"  -> lift_pop(il, instr)
          [] m = "push" -> lift_push(il, instr)
          [] m = "ret"  -> lift_ret(il, instr)
          [] m = "reti" -> lift_reti(il, instr)
          [] m = "rra"  -> lift_rra(il, instr)
          [] m = "rrc"  -> lift_rrc(il, instr)
          [] m = "sub"  -> lift_sub(il, instr)
          [] m = "subc" -> lift_subc(il, instr)
          [] m = "swpb" -> lift_swpb(il, instr)
          [] m = "sxt"  -> lift_sxt(il, instr)
          [] m = "xor"  -> lift_xor(il, instr)
          [] OTHER      -> Lifted(il_append(il, il_unimplemented))

(* MSP430.perform_get_instruction_low_level_il(data, addr, il): the value  *)
(* returned or the exception raised, and the emitter afterwards.           *)
HostOutcome(exc, ret, il) == [exc |-> exc, ret |-> ret, il |-> il]

(* The dint look-ahead: the next instruction is decoded from the bytes     *)
(* after this one; dint followed by a jmp to its own address becomes hlt.  *)
HaltFusion(bytes, addr, instr) ==
    IF instr.mnemonic = "dint"
    THEN LET next == InstructionDecode(SliceFrom(bytes, instr.length),
                                       addr + instr.length)
         IN  IF next.exc # "" THEN Raise(next.exc)
             ELSE IF next.ret = None THEN Raise("AttributeError")
             ELSE IF /\ Val(next.ret).mnemonic = "jmp"
                     /\ Val(Val(next.ret).src).value = Some(addr)
             THEN Return(Some([instr EXCEPT !.mnemonic = "hlt"]))
             ELSE Return(Some(instr))
    ELSE Return(Some(instr))

(* return instr.length, unless the lift raised *)
LiftedOutcome(lifted, instr) ==
    IF lifted.exc # "" THEN HostOutcome(lifted.exc, None, lifted.il)
    ELSE HostOutcome("", Some(instr.length), lifted.il)

(* Lifter.lift(il, instr) on the instruction the look-ahead left *)
LiftFused(fused, il, map, addr) ==
    IF fused.exc # "" THEN HostOutcome(fused.exc, None, il)
    ELSE LiftedOutcome(Lift(il, map, addr, Val(fused.ret)), Val(fused.ret))

(* The lifting callback appending a marker where nothing decodes. *)
PerformGetInstructionLowLevelIL_MarkUndecoded(decoded, bytes, addr, il, map) ==
    IF decoded.exc # "" THEN HostOutcome(decoded.exc, None, il)
    ELSE IF decoded.ret = None
    THEN HostOutcome("", None, il_append(il, il_unimplemented))
    ELSE LiftFused(HaltFusion(bytes, addr, Val(decoded.ret)), il, map, addr)

PerformGetInstructionLowLevelIL(decoded, bytes, addr, il, map) ==
    IF decoded.exc # "" THEN HostOutcome(decoded.exc, None, il)
    ELSE IF decoded.ret = None THEN HostOutcome("", None, il)
    ELSE LiftFused(HaltFusion(bytes, addr, Val(decoded.ret)), il, map, addr)

-----------------------------------------------------------------------------
(* The inputs the host supplies: a byte buffer and an address *)

MaxLen == 6

Addresses == {0, 17408, 65534}

Seeds == {52, 255}

(* The n-byte buffer that starts with the little-endian word w and goes on *)
(* with bytes generated from the seed t.                                   *)
Buffer(w, t, n) ==
    [i \in 1..n |-> IF i = 1 THEN w % 256
                    ELSE IF i = 2 THEN w \div 256
                    ELSE (t + 17 * i) % 256]

(* First words covering every opcode, the four special registers and a     *)
(* general one in both register fields, and every value of bits 7-4.       *)
SampleFields == {0, 1, 2, 3, 15}

SampleWords ==
    {4096 * o + 256 * h + 16 * m + l :
        o \in 0..15, h \in SampleFields, m \in 0..15, l \in SampleFields}

(* Every first word, followed by enough bytes for the longest encoding,    *)
(* at the address where the code of a Microcorruption image starts.        *)
AllWordInputs ==
    \E w \in 0..65535 :
        data = Buffer(w, 52, MaxLen) /\ address = 17408

(* Every jump word at every address. *)
JumpInputs ==
    \E w \in 8192..16383, a \in Addresses :
        data = Buffer(w, 52, 2) /\ address = a

(* The sample words in buffers of every length up to MaxLen, at every       *)
(* address.                                                                *)
SampleInputs ==
    \E w \in SampleWords, t \in Seeds, n \in 0..MaxLen, a \in Addresses :
        data = Buffer(w, t, n) /\ address = a

-----------------------------------------------------------------------------
(* The state machine *)

Init ==
    /\ (AllWordInputs \/ JumpInputs \/ SampleInputs)
    /\ pc = "ready"
    /\ result = Return(None)
    /\ label_map = "none"
    /\ emitter = EmptyIL
    /\ returned = Return(None)

(* The host calls Instruction.decode(data, address). *)
Decode ==
    /\ pc = "ready"
    /\ result' = InstructionDecode(data, address)
    /\ pc' = "decoded"
    /\ UNCHANGED <<data, address, label_map, emitter, returned>>

Next == Decode

Spec == Init /\ [][Next]_vars

-----------------------------------------------------------------------------
(* The host's three callbacks.  Each decodes the buffer itself; result     *)
(* keeps the decoder's answer and returned the callback's.                 *)

(* Jump words of all eight mnemonics with offset fields on both sides of   *)
(* every bit the sign test looks at.                                       *)
JumpFields == {0, 1, 255, 256, 511, 512, 1022, 1023}

HostJumpWords == {8192 + 1024 * c + f : c \in 0..7, f \in JumpFields}

(* Two-word buffers: bic #8,sr (dint), bis #8,sr (eint) and mov cg,cg      *)
(* (nop), each followed by a jmp two words or one word back.               *)
PairBuffer(w, v) == <<w % 256, w \div 256, v % 256, v \div 256>>

HostAllWordInputs ==
    \E w \in 0..65535 :
        /\ data = Buffer(w, 52, MaxLen)
        /\ address = 17408
        /\ label_map = "none"

HostJumpInputs ==
    \E w \in HostJumpWords, a \in Addresses, m \in LabelMaps :
        /\ data = Buffer(w, 52, 2)
        /\ address = a
        /\ label_map = m

HostLabelInputs ==
    \E w \in SampleWords, m \in LabelMaps :
        /\ data = Buffer(w, 255, MaxLen)
        /\ address = 17408
        /\ label_map = m

HostShortInputs ==
    \E w \in SampleWords, n \in 0..MaxLen :
        /\ data = Buffer(w, 52, n)
        /\ address = 0
        /\ label_map = "none"

HostPairInputs ==
    \E w \in {49714, 53810, 17155}, v \in {16382, 16383},
       a \in Addresses, m \in LabelMaps :
        /\ data = PairBuffer(w, v)
        /\ address = a
        /\ label_map = m

InitHost ==
    /\ \/ HostAllWordInputs
       \/ HostJumpInputs
       \/ HostLabelInputs
       \/ HostShortInputs
       \/ HostPairInputs
    /\ pc = "ready"
    /\ result = Return(None)
    /\ emitter = EmptyIL
    /\ returned = Return(None)

(* The host calls perform_get_instruction_info(data, address). *)
GetInstructionInfo ==
    /\ pc = "ready"
    /\ result' = InstructionDecode(data, address)
    /\ returned' = PerformGetInstructionInfo(result', address)
    /\ pc' = "info"
    /\ UNCHANGED <<data, address, label_map, emitter>>

(* The host calls perform_get_instruction_text(data, address). *)
GetInstructionText ==
    /\ pc = "ready"
    /\ result' = InstructionDecode(data, address)
    /\ returned' = PerformGetInstructionText(result', address)
    /\ pc' = "text"
    /\ UNCHANGED <<data, address, label_map, emitter>>

(* The host calls perform_get_instruction_low_level_il(data, address, il). *)
GetInstructionLowLevelIL ==
    /\ pc = "ready"
    /\ result' = InstructionDecode(data, address)
    /\ \E outcome \in {PerformGetInstructionLowLevelIL(
                           result', data, address, emitter, label_map)} :
           /\ returned' = [exc |-> outcome.exc, ret |-> outcome.ret]
           /\ emitter' = outcome.il
    /\ pc' = "lifted"
    /\ UNCHANGED <<data, address, label_map>>

NextHost == GetInstructionInfo \/ GetInstructionText \/ GetInstructionLowLevelIL

SpecHost == InitHost /\ [][NextHost]_vars

-----------------------------------------------------------------------------
(* Vocabulary of the properties *)

Decoded == pc = "decoded"

(* The first little-endian word of the buffer. *)
HasWord == Len(data) >= 2

Word == UnpackH(data, 0)

Field(w, hi, lo) == (w \div (2 ^ lo)) % (2 ^ (hi - lo + 1))

Raised == result.exc # ""

Failed == result.exc = "" /\ result.ret = None

Succeeded == result.exc = "" /\ result.ret # None

Instr == Val(result.ret)

-----------------------------------------------------------------------------
(* C1: whenever the buffer has at least 2 bytes and its first word is      *)
(* 0x4130, decode returns an instruction with mnemonic ret, length 2 and   *)
(* emulated = TRUE, at every address and whatever bytes follow.            *)
C1_LiteralRet ==
    (Decoded /\ HasWord /\ Word = 16688) =>
        /\ Succeeded
        /\ Instr.mnemonic = "ret"
        /\ Instr.length = 2
        /\ Instr.emulated = TRUE

(* 0x4130 decoded away from the base address with bytes following it. *)
C1_Witness ==
    /\ Decoded /\ Len(data) = MaxLen /\ Word = 16688 /\ address = 65534
    /\ Succeeded /\ Instr.mnemonic = "ret"

-----------------------------------------------------------------------------
(* C2, as stated: every successfully decoded first word with top nibble    *)
(* 0x4 and destination register field pc has mnemonic br and               *)
(* emulated = TRUE.                                                        *)
C2_MovToPcIsBr_Original ==
    (Decoded /\ HasWord /\ Succeeded
       /\ Field(Word, 15, 12) = 4 /\ Field(Word, 3, 0) = 0) =>
        (Instr.mnemonic = "br" /\ Instr.emulated = TRUE)

(* C2, amended: every successfully decoded first word with top nibble 0x4  *)
(* and destination register field pc, other than the literal word 0x4130,  *)
(* has mnemonic br and emulated = TRUE.                                    *)
C2_MovToPcIsBr ==
    (Decoded /\ HasWord /\ Succeeded /\ Word # 16688
       /\ Field(Word, 15, 12) = 4 /\ Field(Word, 3, 0) = 0) =>
        (Instr.mnemonic = "br" /\ Instr.emulated = TRUE)

(* mov #imm, pc decoded as br with its immediate word read. *)
C2_Witness ==
    /\ Decoded /\ HasWord /\ Word = 16432 /\ Succeeded
    /\ Instr.mnemonic = "br" /\ Instr.emulated = TRUE /\ Instr.length = 4

-----------------------------------------------------------------------------
(* C3: for every decoded type-1 or type-2 instruction the source mode is   *)
(* the table's function of the source register (bits 11-8 for type 1,      *)
(* bits 3-0 for type 2) and the raw mode (bits 5-4); a cg source has no    *)
(* extra source bytes.                                                     *)
C3_Table(reg, raw) ==
    IF reg = 3 THEN
        CASE raw = 0 -> CONSTANT_MODE0
          [] raw = 1 -> CONSTANT_MODE1
          [] raw = 2 -> CONSTANT_MODE2
          [] raw = 3 -> CONSTANT_MODE_NEG1
    ELSE IF reg = 0 /\ raw = 1 THEN SYMBOLIC_MODE
    ELSE IF reg = 0 /\ raw = 3 THEN IMMEDIATE_MODE
    ELSE IF reg = 2 /\ raw = 1 THEN ABSOLUTE_MODE
    ELSE IF reg = 2 /\ raw = 2 THEN CONSTANT_MODE4
    ELSE IF reg = 2 /\ raw = 3 THEN CONSTANT_MODE8
    ELSE raw

C3_SourceRegField == 
    IF Field(Word, 15, 12) = 1 THEN Field(Word, 3, 0) ELSE Field(Word, 11, 8)

C3_SourceModeTable ==
    (Decoded /\ HasWord /\ Succeeded /\ Instr.src # None
       /\ Field(Word, 15, 12) \in {1} \cup (4..15)) =>
        LET src == Val(Instr.src)
            reg == C3_SourceRegField
        IN  /\ src.mode = C3_Table(reg, Field(Word, 5, 4))
            /\ src.target = Some(Index(Registers, reg))
            /\ reg = 3 => (src.operand_length = 0 /\ src.value = None)

(* A single-operand instruction whose sr source in indirect-autoincrement  *)
(* mode became the constant 8.                                             *)
C3_Witness ==
    /\ Decoded /\ HasWord /\ Succeeded /\ Instr.src # None
    /\ Field(Word, 15, 12) = 1 /\ C3_SourceRegField = 2
    /\ Field(Word, 5, 4) = 3
    /\ Val(Instr.src).mode = CONSTANT_MODE8

-----------------------------------------------------------------------------
(* Bits 9-0 of the word read as a 10-bit two's-complement number. *)
Signed10(w) ==
    IF Field(w, 9, 0) >= 512 THEN Field(w, 9, 0) - 1024 ELSE Field(w, 9, 0)

IsJumpWord(w) == Field(w, 15, 12) \in {2, 3}

(* C4: every jump word decoded at address A has source value               *)
(* A + 2 + 2*s, s being bits 9-0 as a 10-bit two's-complement number.      *)
C4_JumpTarget ==
    (Decoded /\ HasWord /\ IsJumpWord(Word)) =>
        /\ Succeeded
        /\ Val(Instr.src).value = Some(address + 2 + 2 * Signed10(Word))

-----------------------------------------------------------------------------
(* C5: for each of the eight jump mnemonics decoded at address A, offset   *)
(* field 0x3FF gives target A and offset field 0x001 gives target A + 4.   *)
C5_BranchOffsetLaw ==
    (Decoded /\ HasWord /\ IsJumpWord(Word)) =>
        /\ Succeeded
        /\ In(Instr.mnemonic, TYPE3_INSTRUCTIONS)
        /\ Field(Word, 9, 0) = 1023 => Val(Instr.src).value = Some(address)
        /\ Field(Word, 9, 0) = 1 => Val(Instr.src).value = Some(address + 4)

(* jl with offset field 0x3FF at the top of the address space. *)
C5_Witness ==
    /\ Decoded /\ HasWord /\ Word = 15359 /\ address = 65534
    /\ Succeeded /\ Instr.mnemonic = "jl"
    /\ Val(Instr.src).value = Some(65534)

-----------------------------------------------------------------------------
(* First words the opcode tables give no mnemonic: opcode 0, and opcode 1  *)
(* with sub-field 7.                                                       *)
C6_NoMnemonic(w) ==
    \/ Field(w, 15, 12) = 0
    \/ Field(w, 15, 12) = 1 /\ Field(w, 9, 7) = 7

(* C6: decode always returns (an Instruction or None) and never raises;    *)
(* a first word with no defined mnemonic yields None.                      *)
C6_DecodeNeverRaises ==
    Decoded =>
        /\ ~Raised
        /\ (HasWord /\ C6_NoMnemonic(Word)) => Failed

-----------------------------------------------------------------------------
(* C7: when decode succeeds with length L, decoding the first L bytes      *)
(* gives the same result and decoding the first L-1 bytes gives None.      *)
C7_RoundTripLength ==
    (Decoded /\ Succeeded) =>
        /\ InstructionDecode(SliceTo(data, Instr.length), address) = result
        /\ InstructionDecode(SliceTo(data, Instr.length - 1), address)
               = Return(None)

(* A 4-byte instruction decoded from a longer buffer. *)
C7_Witness ==
    /\ Decoded /\ Succeeded /\ Instr.length = 4 /\ Len(data) = MaxLen
    /\ Val(Instr.src).value # None

-----------------------------------------------------------------------------
C8_ExtraWordModes ==
    {INDEXED_MODE, SYMBOLIC_MODE, ABSOLUTE_MODE, IMMEDIATE_MODE}

C8_Extra(operand) ==
    IF operand # None /\ Val(operand).mode \in C8_ExtraWordModes
    THEN 2 ELSE 0

(* C8: a decoded instruction's length is 2, 4 or 6, and is 2 plus 2 for    *)
(* each operand whose mode is indexed, symbolic, absolute or immediate.    *)
C8_LengthFromModes ==
    (Decoded /\ Succeeded) =>
        /\ Instr.length \in {2, 4, 6}
        /\ Instr.length = 2 + C8_Extra(Instr.src) + C8_Extra(Instr.dst)

(* A 6-byte instruction: both operands carry an extra word. *)
C8_Witness ==
    /\ Decoded /\ Succeeded /\ Instr.length = 6
    /\ Val(Instr.src).mode = IMMEDIATE_MODE
    /\ Val(Instr.dst).mode = ABSOLUTE_MODE

-----------------------------------------------------------------------------
C9_Names ==
    <<"mov", "add", "addc", "subc", "sub", "cmp",
      "dadd", "bit", "bic", "bis", "xor", "and">>

C9_Expected(w) ==
    IF w = 16688 THEN "ret"
    ELSE IF Field(w, 15, 12) = 4 /\ Field(w, 3, 0) = 0 THEN "br"
    ELSE Index(C9_Names, Field(w, 15, 12) - 4)

(* C9: a first word with top nibble 0 fails to decode; one with top nibble *)
(* 4..15 decodes, given six bytes, to the mnemonic its top nibble selects, *)
(* but for 0x4130 (ret) and mov with destination pc (br).                  *)
C9_TopNibbleSelects ==
    (Decoded /\ HasWord) =>
        /\ Field(Word, 15, 12) = 0 => Failed
        /\ Field(Word, 15, 12) >= 4 =>
            /\ ~Raised
            /\ Len(data) >= 6 => Succeeded
            /\ Succeeded => Instr.mnemonic = C9_Expected(Word)

(* subc decoded from a word with top nibble 7. *)
C9_Witness ==
    /\ Decoded /\ HasWord /\ Field(Word, 15, 12) = 7
    /\ Succeeded /\ Instr.mnemonic = "subc"

-----------------------------------------------------------------------------
C10_Names(nibble) ==
    CASE nibble = 1 ->
           <<"rrc", "swpb", "rra", "sxt", "push", "call", "reti">>
      [] nibble = 2 -> <<"jnz", "jz", "jlo", "jhs">>
      [] nibble = 3 -> <<"jn", "jge", "jl", "jmp">>

C10_Selected(nibble, sub) ==
    IF InRange(C10_Names(nibble), sub)
    THEN Some(Index(C10_Names(nibble), sub)) ELSE None

(* C10, as stated: for top nibbles 1, 2 and 3 the decoded mnemonic is the  *)
(* one bits 10-8 select from the nibble's list.                            *)
C10_SubField_Original ==
    (Decoded /\ HasWord /\ Succeeded /\ Field(Word, 15, 12) \in {1, 2, 3}) =>
        Some(Instr.mnemonic)
            = C10_Selected(Field(Word, 15, 12), Field(Word, 10, 8))

(* C10, amended: for top nibble 1 the decoded mnemonic is the one bits 9-7 *)
(* select among the seven single-operand names, and for top nibbles 2 and  *)
(* 3 the one bits 11-10 select among the nibble's four jump names.         *)
C10_SubField ==
    (Decoded /\ HasWord /\ Succeeded /\ Field(Word, 15, 12) \in {1, 2, 3}) =>
        Some(Instr.mnemonic)
            = C10_Selected(Field(Word, 15, 12),
                           IF Field(Word, 15, 12) = 1
                           THEN Field(Word, 9, 7) ELSE Field(Word, 11, 10))

(* call decoded from a word whose bits 9-7 are 5 and bits 10-8 are 2. *)
C10_Witness ==
    /\ Decoded /\ HasWord /\ Succeeded /\ Field(Word, 15, 12) = 1
    /\ Field(Word, 9, 7) = 5 /\ Field(Word, 10, 8) = 2
    /\ Instr.mnemonic = "call"

-----------------------------------------------------------------------------
(* Vocabulary of the properties of the host's callbacks *)

AskedInfo == pc = "info"

AskedText == pc = "text"

AskedIL == pc = "lifted"

(* The callback returned a value other than None. *)
Answered == returned.exc = "" /\ returned.ret # None

Answer == Val(returned.ret)

(* The operations appended to the emitter. *)
Ops == emitter.ops

Count(seq, P(_)) == Cardinality({i \in 1..Len(seq) : P(seq[i])})

-----------------------------------------------------------------------------
C11_Pad == <<"", " ", "  ", "   ", "    ", "     ", "      ", "       ">>

C11_ConstantText(mode) ==
    CASE mode = CONSTANT_MODE0 -> "0"
      [] mode = CONSTANT_MODE1 -> "1"
      [] mode = CONSTANT_MODE2 -> "2"
      [] mode = CONSTANT_MODE4 -> "4"
      [] mode = CONSTANT_MODE8 -> "8"
      [] mode = CONSTANT_MODE_NEG1 -> "-1"

C11_WithRegister ==
    {REGISTER_MODE, INDEXED_MODE, INDIRECT_REGISTER_MODE,
     INDIRECT_AUTOINCREMENT_MODE}

(* The texts of the tokens an operand renders as. *)
C11_OperandTexts(operand) ==
    LET mode == operand.mode
    IN  CASE mode = REGISTER_MODE -> <<Val(operand.target)>>
          [] mode = INDEXED_MODE ->
               <<Hex(Val(operand.value)), "(", Val(operand.target), ")">>
          [] mode = INDIRECT_REGISTER_MODE -> <<"@", Val(operand.target)>>
          [] mode = INDIRECT_AUTOINCREMENT_MODE ->
               <<"@", Val(operand.target), "+">>
          [] mode = ABSOLUTE_MODE -> <<"&", Hex(Val(operand.value))>>
          [] mode \in {SYMBOLIC_MODE, IMMEDIATE_MODE, OFFSET} ->
               <<Hex(Val(operand.value))>>
          [] OTHER -> <<C11_ConstantText(mode)>>

C11_Registers(operand) ==
    IF operand # None /\ Val(operand).mode \in C11_WithRegister THEN 1 ELSE 0

C11_IsRegisterToken(token) == token.type = "RegisterToken"

(* C11: the tokens of a decoded instruction are the mnemonic, with ".b"    *)
(* exactly for byte width, padded to 7 characters; then the source tokens, *)
(* and for a double-operand instruction a "," and the destination tokens;  *)
(* each mode renders as the claim's shape, a constant as its numeral with  *)
(* no register token.                                                      *)
C11_TokenLayout ==
    (AskedText /\ Succeeded) =>
        /\ Answered
        /\ Answer.length = Instr.length
        /\ LET tokens == Answer.tokens
               texts  == [i \in 1..Len(tokens) |-> tokens[i].text]
               byte   == Instr.src # None /\ Val(Instr.src).width = Some(1)
               name   == IF byte THEN Instr.mnemonic \o ".b"
                         ELSE Instr.mnemonic
               operands ==
                   IF Instr.type = Some(1)
                   THEN C11_OperandTexts(Val(Instr.src)) \o <<",">>
                            \o C11_OperandTexts(Val(Instr.dst))
                   ELSE IF Instr.type \in {Some(2), Some(3)}
                   THEN C11_OperandTexts(Val(Instr.src))
                   ELSE <<>>
           IN  /\ Len(tokens) >= 1
               /\ tokens[1].type = "TextToken"
               /\ Len(tokens[1].text) = 7
               /\ \E k \in 0..7 : tokens[1].text = name \o Index(C11_Pad, k)
               /\ SubSeq(texts, 2, Len(texts)) = operands
               /\ Count(tokens, C11_IsRegisterToken)
                      = C11_Registers(Instr.src) + C11_Registers(Instr.dst)

(* A byte-width double-operand instruction from an indexed source to an    *)
(* absolute destination.                                                   *)
C11_Witness ==
    /\ AskedText /\ Succeeded /\ Answered
    /\ Instr.type = Some(1)
    /\ Val(Instr.src).width = Some(1)
    /\ Val(Instr.src).mode = INDEXED_MODE
    /\ Val(Instr.dst).mode = ABSOLUTE_MODE
    /\ Len(Answer.tokens) = 8

-----------------------------------------------------------------------------
C16_ConditionalJumps == {"jnz", "jz", "jlo", "jhs", "jn", "jge", "jl"}

(* C16: perform_get_instruction_info reports the decoded length; ret and   *)
(* reti get one function-return branch, jmp one unconditional branch to    *)
(* the decoded target, a conditional jump a taken branch to the decoded    *)
(* target and a fallthrough branch to addr + 2, and an instruction that is *)
(* none of ret, reti, jmp, br, call or a conditional jump no branch.       *)
C16_InfoClassification ==
    (AskedInfo /\ Succeeded) =>
        /\ Answered
        /\ Answer.length = Instr.length
        /\ Instr.mnemonic \in {"ret", "reti"} =>
               Answer.branches = << Branch("FunctionReturn", None) >>
        /\ Instr.mnemonic = "jmp" =>
               Answer.branches =
                   << Branch("UnconditionalBranch", Val(Instr.src).value) >>
        /\ Instr.mnemonic \in C16_ConditionalJumps =>
               Answer.branches =
                   << Branch("TrueBranch", Val(Instr.src).value),
                      Branch("FalseBranch", Some(address + 2)) >>
        /\ Instr.mnemonic \notin
               {"ret", "reti", "jmp", "br", "call"} \cup C16_ConditionalJumps
             => Answer.branches = << >>

(* A conditional jump reported with its two branches. *)
C16_Witness ==
    /\ AskedInfo /\ Succeeded /\ Answered
    /\ Instr.mnemonic = "jge"
    /\ Len(Answer.branches) = 2
    /\ Answer.branches[2].target = Some(address + 2)
    /\ Answer.branches[1].target # Answer.branches[2].target

-----------------------------------------------------------------------------
AllFlags == {"v", "n", "c", "z"}

(* The operation is a write of some value to the operand. *)
WritesTo(operand, operation) ==
    /\ Len(operation.args) >= 1
    /\ operation.op \in {"set_reg", "store"}
    /\ operation = DestIL(operand, operation.args[Len(operation.args)])

(* The value an appended write carries. *)
Written(operation) == operation.args[Len(operation.args)]

(* The increment of the source register by the operand's width, for a      *)
(* source in indirect-autoincrement mode.                                  *)
Increment(src) ==
    il_set_reg(2, Val(src.target),
               il_add(Val(src.width), il_reg(2, Val(src.target)),
                      il_const(2, Val(src.width)), ""))

Increments(src) ==
    IF src.mode = INDIRECT_AUTOINCREMENT_MODE THEN <<Increment(src)>>
    ELSE <<>>

C12_WritesDst(operation) == WritesTo(Val(Instr.dst), operation)

(* C12 as stated: cmp appends only an all-flags subtraction and no write   *)
(* to the destination operand; add appends exactly one write to the        *)
(* destination operand, of an all-flags addition.                          *)
C12_FlagUpdate_Original ==
    (AskedIL /\ Succeeded) =>
        /\ Instr.mnemonic = "cmp" =>
               /\ Len(Ops) = 1
               /\ Ops[1].op = "sub"
               /\ flags_written_by_flag_write_type(Ops[1].flags) = AllFlags
               /\ Count(Ops, C12_WritesDst) = 0
        /\ Instr.mnemonic = "add" =>
               /\ Count(Ops, C12_WritesDst) = 1
               /\ \A i \in 1..Len(Ops) :
                      C12_WritesDst(Ops[i]) =>
                          /\ Written(Ops[i]).op = "add"
                          /\ flags_written_by_flag_write_type(
                                 Written(Ops[i]).flags) = AllFlags

(* C12, amended: cmp appends an all-flags subtraction that is not written  *)
(* anywhere, add appends one write to the destination operand of an        *)
(* all-flags addition; either is followed by the increment of the source   *)
(* register when the source is in indirect-autoincrement mode, and by      *)
(* nothing else.                                                           *)
C12_FlagUpdate ==
    (AskedIL /\ Succeeded) =>
        /\ Instr.mnemonic = "cmp" =>
               /\ Len(Ops) >= 1
               /\ Ops[1].op = "sub"
               /\ flags_written_by_flag_write_type(Ops[1].flags) = AllFlags
               /\ Tail(Ops) = Increments(Val(Instr.src))
        /\ Instr.mnemonic = "add" =>
               /\ Len(Ops) >= 1
               /\ C12_WritesDst(Ops[1])
               /\ Written(Ops[1]).op = "add"
               /\ flags_written_by_flag_write_type(Written(Ops[1]).flags)
                      = AllFlags
               /\ Tail(Ops) = Increments(Val(Instr.src))

(* A cmp whose autoincremented source register is its destination: the     *)
(* increment writes the destination register.                              *)
C12_Witness ==
    /\ AskedIL /\ Succeeded
    /\ Instr.mnemonic = "cmp"
    /\ Val(Instr.src).mode = INDIRECT_AUTOINCREMENT_MODE
    /\ Val(Instr.dst).mode = REGISTER_MODE
    /\ Val(Instr.src).target = Val(Instr.dst).target
    /\ Len(Ops) = 2
    /\ C12_WritesDst(Ops[2])

-----------------------------------------------------------------------------
(* The operation sets the register to itself plus a constant. *)
IsIncrementOf(reg, operation) ==
    /\ operation.op = "set_reg"
    /\ operation.name = reg
    /\ Len(operation.args) = 1
    /\ operation.args[1].op = "add"
    /\ operation.args[1].args[1] = il_reg(2, reg)
    /\ operation.args[1].args[2].op = "const"

IncrementAmount(operation) == operation.args[1].args[2].value

AutoincrementSource ==
    /\ AskedIL /\ Succeeded
    /\ Instr.src # None
    /\ Val(Instr.src).mode = INDIRECT_AUTOINCREMENT_MODE

C13_IsIncrement(operation) ==
    IsIncrementOf(Val(Val(Instr.src).target), operation)

(* C13 as stated: an instruction of any mnemonic with an autoincrement     *)
(* source appends exactly one increment of the source register, by the     *)
(* operand's width, after the operation carrying the primary effect.       *)
C13_Autoincrement_Original ==
    AutoincrementSource =>
        /\ Count(Ops, C13_IsIncrement) = 1
        /\ Len(Ops) >= 2
        /\ C13_IsIncrement(Ops[Len(Ops)])
        /\ IncrementAmount(Ops[Len(Ops)]) = Val(Val(Instr.src).width)

(* C13, amended: with an autoincrement source, dadd and reti append no     *)
(* increment; call appends one increment by 2 between the copy of the      *)
(* register to a temporary and the call; every other mnemonic appends      *)
(* exactly one increment, by the operand's width, as its last operation,   *)
(* after at least one other operation.                                     *)
C13_Autoincrement ==
    AutoincrementSource =>
        /\ returned = Return(Some(Instr.length))
        /\ Instr.mnemonic \in {"dadd", "reti"} =>
               Count(Ops, C13_IsIncrement) = 0
        /\ Instr.mnemonic = "call" =>
               /\ Len(Ops) = 3
               /\ Count(Ops, C13_IsIncrement) = 1
               /\ C13_IsIncrement(Ops[2])
               /\ IncrementAmount(Ops[2]) = 2
               /\ Ops[3].op = "call"
        /\ Instr.mnemonic \notin {"dadd", "reti", "call"} =>
               /\ Count(Ops, C13_IsIncrement) = 1
               /\ Len(Ops) >= 2
               /\ Ops[Len(Ops)] = Increment(Val(Instr.src))
               /\ IncrementAmount(Ops[Len(Ops)]) = Val(Val(Instr.src).width)

(* A byte push from an autoincremented register: the push, then the        *)
(* increment by 1.                                                         *)
C13_Witness ==
    /\ AutoincrementSource
    /\ Instr.mnemonic = "push"
    /\ Val(Instr.src).width = Some(1)
    /\ Len(Ops) = 2
    /\ Ops[1].op = "push"
    /\ C13_IsIncrement(Ops[2])
    /\ IncrementAmount(Ops[2]) = 1

-----------------------------------------------------------------------------
C14_IsMarker(operation) == operation.op = "unimplemented"

(* C14: lift appends an unimplemented marker if and only if the mnemonic   *)
(* is dadd, and for dadd exactly one marker and nothing else.              *)
C14_MarkerOnlyForDadd ==
    (AskedIL /\ Succeeded) =>
        /\ Count(Ops, C14_IsMarker) >= 1 <=> Instr.mnemonic = "dadd"
        /\ Instr.mnemonic = "dadd" => Ops = << il_unimplemented >>

-----------------------------------------------------------------------------
(* C15: for every input on which decode succeeds, the lifting and the text *)
(* callbacks complete without raising and return the instruction length:   *)
(* no operand-table lookup is made with a mode outside the table's range.  *)
C15_CallbacksNeverRaise ==
    /\ (AskedIL /\ Succeeded) => returned = Return(Some(Instr.length))
    /\ (AskedText /\ Succeeded) =>
           /\ Answered
           /\ Answer.length = Instr.length

-----------------------------------------------------------------------------
(* The branch predicate the MSP430 flag-condition mapping gives a          *)
(* conditional jump.                                                       *)
C17_Condition(mnemonic) ==
    CASE mnemonic = "jhs" -> il_flag_condition("LLFC_UGE")
      [] mnemonic = "jlo" -> il_flag_condition("LLFC_ULT")
      [] mnemonic = "jge" -> il_flag_condition("LLFC_SGE")
      [] mnemonic = "jl"  -> il_flag_condition("LLFC_SLT")
      [] mnemonic = "jz"  -> il_flag_condition("LLFC_E")
      [] mnemonic = "jnz" -> il_flag_condition("LLFC_NE")

(* C17: the if-operation of a lifted conditional jump tests, for jhs,      *)
(* unsigned-greater-or-equal; jlo, unsigned-less-than; jge, signed-        *)
(* greater-or-equal; jl, signed-less-than; jz, equal; jnz, not-equal; and  *)
(* for jn the comparison of the negative flag with 1.                      *)
C17_FlagConditions ==
    (AskedIL /\ Succeeded /\ Instr.mnemonic \in C16_ConditionalJumps) =>
        /\ Len(Ops) >= 1
        /\ Ops[1].op = "if"
        /\ Instr.mnemonic # "jn" =>
               Ops[1].args[1] = C17_Condition(Instr.mnemonic)
        /\ Instr.mnemonic = "jn" =>
               /\ Ops[1].args[1].op = "cmp_e"
               /\ Ops[1].args[1].args[1] = il_flag("n")
               /\ Ops[1].args[1].args[2].op = "const"
               /\ Ops[1].args[1].args[2].value = 1

-----------------------------------------------------------------------------
(* The buffer holds the word of dint (bic #8, sr) followed by a jmp whose  *)
(* target is the address being lifted.                                     *)
C18_DintThenSelfJump ==
    /\ Len(data) >= 4
    /\ Word = 49714
    /\ LET next == InstructionDecode(SliceFrom(data, 2), address + 2)
       IN  /\ next.exc = "" /\ next.ret # None
           /\ Val(next.ret).mnemonic = "jmp"
           /\ Val(Val(next.ret).src).value = Some(address)

(* C18: dint immediately followed by a jmp back to its own address lifts   *)
(* as a single no-return operation.                                        *)
C18_HaltFusion ==
    (AskedIL /\ C18_DintThenSelfJump) => Ops = << il_no_ret >>

-----------------------------------------------------------------------------
C19_Refused ==
    /\ Val(Instr.src).mode = IMMEDIATE_MODE
    /\ Val(Instr.dst).mode = REGISTER_MODE
    /\ Val(Instr.dst).target = Some("sp")

C19_WritesDst(operation) == WritesTo(Val(Instr.dst), operation)

(* C19 as stated: a mov of an immediate to sp in register mode appends no  *)
(* operation and marks nothing while the length is returned; every other   *)
(* mov appends exactly one write to its destination.                       *)
C19_MovToSp_Original ==
    (AskedIL /\ Succeeded /\ Instr.mnemonic = "mov") =>
        /\ returned = Return(Some(Instr.length))
        /\ C19_Refused => emitter = EmptyIL
        /\ ~C19_Refused => Count(Ops, C19_WritesDst) = 1

(* C19, amended: a mov of an immediate to sp in register mode appends no   *)
(* operation and marks nothing while the length is returned; every other   *)
(* mov appends exactly one write of the source value to its destination,   *)
(* followed only by the increment of the source register when the source   *)
(* is in indirect-autoincrement mode.                                      *)
C19_MovToSp ==
    (AskedIL /\ Succeeded /\ Instr.mnemonic = "mov") =>
        /\ returned = Return(Some(Instr.length))
        /\ C19_Refused => emitter = EmptyIL
        /\ ~C19_Refused =>
               /\ Len(Ops) >= 1
               /\ Ops[1] = DestIL(Val(Instr.dst), SourceIL(Val(Instr.src)))
               /\ Tail(Ops) = Increments(Val(Instr.src))

(* The refused mov: 4 bytes decoded, nothing appended. *)
C19_Witness ==
    /\ AskedIL /\ Succeeded /\ Instr.mnemonic = "mov"
    /\ C19_Refused
    /\ Val(Instr.src).width = Some(2)
    /\ returned = Return(Some(4))
    /\ emitter = EmptyIL

-----------------------------------------------------------------------------
C20_NeedsWord(operand) == operand.mode \in C8_ExtraWordModes

(* C20: a double-operand instruction's destination has the register of     *)
(* bits 3-0 and the mode of bit 7 (0 register, 1 indexed), re-mapped to    *)
(* absolute exactly for sr indexed; with both operands needing an extra    *)
(* word the source value is the word at bytes 2-3 and the destination      *)
(* value the word at bytes 4-5, and with only the destination needing one  *)
(* its value is the word at bytes 2-3.                                     *)
C20_DestinationOperand ==
    (Decoded /\ HasWord /\ Succeeded /\ Instr.type = Some(1)) =>
        LET src == Val(Instr.src)
            dst == Val(Instr.dst)
            reg == Field(Word, 3, 0)
            bit == Field(Word, 7, 7)
        IN  /\ Instr.dst # None
            /\ dst.target = Some(Index(Registers, reg))
            /\ dst.mode = IF bit = 0 THEN REGISTER_MODE
                          ELSE IF reg = 2 THEN ABSOLUTE_MODE
                          ELSE INDEXED_MODE
            /\ (C20_NeedsWord(src) /\ C20_NeedsWord(dst)) =>
                   /\ src.value = Some(UnpackH(data, 2))
                   /\ dst.value = Some(UnpackH(data, 4))
            /\ (~C20_NeedsWord(src) /\ C20_NeedsWord(dst)) =>
                   dst.value = Some(UnpackH(data, 2))
            /\ ~C20_NeedsWord(dst) => dst.value = None

(* Both operands carry an extra word, and the two words differ. *)
C20_Witness ==
    /\ Decoded /\ HasWord /\ Succeeded /\ Instr.type = Some(1)
    /\ Instr.length = 6
    /\ Val(Instr.dst).mode = ABSOLUTE_MODE
    /\ Val(Instr.dst).value = Some(UnpackH(data, 4))
    /\ Val(Instr.src).value = Some(UnpackH(data, 2))
    /\ UnpackH(data, 2) # UnpackH(data, 4)

-----------------------------------------------------------------------------
(* C21: a decoded instruction has one of the three formats and the operand *)
(* shape of its format: single-operand, a source and no destination;       *)
(* double-operand, a source and a destination; jump, only a source in      *)
(* offset mode carrying the target.  None has neither source nor format.   *)
C21_OperandShapes ==
    (Decoded /\ Succeeded) =>
        /\ Instr.type \in {Some(1), Some(2), Some(3)}
        /\ Instr.src # None
        /\ Instr.type = Some(1) => Instr.dst # None
        /\ Instr.type = Some(2) => Instr.dst = None
        /\ Instr.type = Some(3) =>
               /\ Instr.dst = None
               /\ Val(Instr.src).mode = OFFSET
               /\ Val(Instr.src).value # None

-----------------------------------------------------------------------------
C22_FlagAffecting ==
    {"add", "addc", "sub", "subc", "cmp", "and", "bit", "bic", "bis", "xor"}

(* The operation a lifted double-operand instruction computes over its two *)
(* operand values: the first appended operation or the value it writes,    *)
(* and for addc and subc the inner operation the carry is folded into.     *)
C22_Computed ==
    LET first == Ops[1]
        outer == IF first.op \in {"set_reg", "store"} THEN Written(first)
                 ELSE first
    IN  IF Instr.mnemonic \in {"addc", "subc"} THEN outer.args[1] ELSE outer

(* C22: for add, addc, sub, subc, cmp, and, bit, bic, bis and xor the      *)
(* operation emitted over the source and destination operand values is     *)
(* marked as updating all four flags.                                      *)
C22_AllFlagsMarked ==
    (AskedIL /\ Succeeded /\ Instr.mnemonic \in C22_FlagAffecting) =>
        /\ Len(Ops) >= 1
        /\ flags_written_by_flag_write_type(C22_Computed.flags) = AllFlags

-----------------------------------------------------------------------------
C23_Case ==
    /\ AskedIL /\ Succeeded
    /\ Instr.mnemonic = "call"
    /\ Val(Instr.src).mode = INDIRECT_AUTOINCREMENT_MODE

(* C23: call with an indirect-autoincrement source appends exactly three   *)
(* operations: the temporary is set to the source register, the source     *)
(* register is incremented by 2, and the call loads its target through the *)
(* temporary.                                                              *)
C23_CallAutoincrement ==
    C23_Case =>
        LET reg == Val(Val(Instr.src).target)
        IN  /\ returned = Return(Some(Instr.length))
            /\ Ops = << il_set_reg(2, LLIL_TEMP0, il_reg(2, reg)),
                        il_set_reg(2, reg,
                            il_add(2, il_reg(2, reg), il_const(2, 2), "")),
                        il_call(il_load(2, il_reg(2, LLIL_TEMP0))) >>

(* call @r5+ lifted: three operations, the last one not reading r5. *)
C23_Witness ==
    /\ C23_Case
    /\ Val(Instr.src).target = Some("r5")
    /\ Len(Ops) = 3
    /\ Ops[1].name = LLIL_TEMP0
    /\ Ops[2].name = "r5"
    /\ Ops[3].op = "call"
    /\ Ops[3].args[1].args[1] # il_reg(2, "r5")

-----------------------------------------------------------------------------
C24_RegisterOrMemory ==
    {REGISTER_MODE, INDEXED_MODE, INDIRECT_REGISTER_MODE,
     INDIRECT_AUTOINCREMENT_MODE, SYMBOLIC_MODE, ABSOLUTE_MODE}

(* The transfer to a constant target: a goto to the emitter's label for    *)
(* the address when it has one, an indirect jump to the constant if not.   *)
C24_Transfer(expr) ==
    IF HasLabel(label_map, address, expr.value)
    THEN il_goto(AddressLabel(expr.value))
    ELSE il_jump(expr)

(* C24: jmp appends exactly one operation, a goto to the emitter's label   *)
(* for the target when it has one and an indirect jump to the constant     *)
(* target otherwise; br looks a label up only for a constant source        *)
(* expression and appends an indirect jump for every register or memory    *)
(* source.                                                                 *)
C24_JumpResolution ==
    /\ (AskedIL /\ Succeeded /\ Instr.mnemonic = "jmp") =>
           /\ Ops = << C24_Transfer(il_const(2, Val(Val(Instr.src).value))) >>
           /\ emitter.marks = << >>
    /\ (AskedIL /\ Succeeded /\ Instr.mnemonic = "br") =>
           LET expr == SourceIL(Val(Instr.src))
           IN  /\ Len(Ops) >= 1
               /\ expr.op = "const" => Ops[1] = C24_Transfer(expr)
               /\ expr.op # "const" => Ops[1] = il_jump(expr)
               /\ Val(Instr.src).mode \in C24_RegisterOrMemory =>
                      /\ expr.op # "const"
                      /\ Ops[1].op = "jump"

(* A jmp whose target the emitter has a label for: one goto. *)
C24_Witness ==
    /\ AskedIL /\ Succeeded /\ Instr.mnemonic = "jmp"
    /\ HasLabel(label_map, address, Val(Val(Instr.src).value))
    /\ Len(Ops) = 1
    /\ Ops[1].op = "goto"
    /\ Ops[1].labels = << AddressLabel(Val(Val(Instr.src).value)) >>

-----------------------------------------------------------------------------
(* C25: when decode returns None (fewer than 2 bytes, opcode 0, or fewer   *)
(* bytes than the computed length), the lifting callback returns None with *)
(* no operation appended and no label marked, and the text and info        *)
(* callbacks return None.                                                  *)
C25_UndecodableIsNone ==
    (AskedIL \/ AskedText \/ AskedInfo) =>
        /\ (Len(data) < 2 \/ (HasWord /\ Field(Word, 15, 12) = 0)) => Failed
        /\ Failed =>
               /\ returned = Return(None)
               /\ emitter = EmptyIL

(* Four bytes of an instruction that needs six: the lifting callback       *)
(* answered None and left the emitter as it was.                           *)
C25_Witness ==
    /\ AskedIL /\ Failed
    /\ Len(data) = 4
    /\ Field(Word, 15, 12) \in 4..15
    /\ returned = Return(None)
    /\ emitter = EmptyIL

-----------------------------------------------------------------------------
C26_Case ==
    AskedIL /\ Succeeded /\ Instr.mnemonic \in C16_ConditionalJumps

C26_Target == Val(Val(Instr.src).value)

C26_TargetKnown == HasLabel(label_map, address, C26_Target)

C26_FallthroughKnown == HasLabel(label_map, address, address + 2)

(* The taken and the fallthrough label: the emitter's where it has one,    *)
(* fresh otherwise, numbered in the order of creation.                     *)
C26_Taken ==
    IF C26_TargetKnown THEN AddressLabel(C26_Target) ELSE FreshLabel(0)

C26_Fallthrough ==
    IF C26_FallthroughKnown THEN AddressLabel(address + 2)
    ELSE FreshLabel(IF C26_TargetKnown THEN 0 ELSE 1)

(* C26: a conditional-jump lift appends the if first; a fresh taken label  *)
(* is made only for a target without a label, marked right after the if    *)
(* and followed by exactly one indirect jump to the target; a fresh        *)
(* fallthrough label is made only when current_address + 2 has no label    *)
(* and is marked last, after every appended operation; every fresh label   *)
(* is marked exactly once and no label of the emitter is marked.           *)
C26_LabelOrder ==
    C26_Case =>
        /\ Len(Ops) >= 1
        /\ Ops[1].op = "if"
        /\ Ops[1].labels = << C26_Taken, C26_Fallthrough >>
        /\ Tail(Ops) = IF C26_TargetKnown THEN << >>
                       ELSE << il_jump(il_const(2, C26_Target)) >>
        /\ emitter.marks =
               (IF C26_TargetKnown THEN << >>
                ELSE << [label |-> C26_Taken, at |-> 1] >>)
               \o (IF C26_FallthroughKnown THEN << >>
                   ELSE << [label |-> C26_Fallthrough, at |-> Len(Ops)] >>)
        /\ emitter.created = (IF C26_TargetKnown THEN 0 ELSE 1)
                             + (IF C26_FallthroughKnown THEN 0 ELSE 1)

(* Neither address has a label: if, taken label, jump, fallthrough label. *)
C26_Witness ==
    /\ C26_Case
    /\ ~C26_TargetKnown /\ ~C26_FallthroughKnown
    /\ Len(Ops) = 2
    /\ Ops[2].op = "jump"
    /\ Len(emitter.marks) = 2
    /\ emitter.marks[1].at = 1
    /\ emitter.marks[2].at = 2
    /\ emitter.marks[1].label # emitter.marks[2].label

-----------------------------------------------------------------------------
(* C27: for call and br the info callback reports a branch target only     *)
(* for an immediate source, and then the immediate word; for a register,   *)
(* indirect, indexed, symbolic, absolute or constant-generator source it   *)
(* reports no target address.                                              *)
C27_TargetOnlyForImmediate ==
    (AskedInfo /\ Succeeded /\ Instr.mnemonic \in {"call", "br"}) =>
        /\ Answered
        /\ IF Val(Instr.src).mode = IMMEDIATE_MODE
           THEN /\ Len(Answer.branches) = 1
                /\ Answer.branches[1].target = Some(UnpackH(data, 2))
           ELSE \A i \in 1..Len(Answer.branches) :
                    Answer.branches[i].target = None

-----------------------------------------------------------------------------
(* The subtraction with the destination operand's value as minuend and the *)
(* source operand's value as subtrahend, all flags marked.                 *)
C28_DstMinusSrc ==
    il_sub(Val(Val(Instr.src).width), SourceIL(Val(Instr.dst)),
           SourceIL(Val(Instr.src)), "*")

(* C28: cmp emits the subtraction sub emits for the same operands, dst -   *)
(* src, and so does subc before the borrow is folded in.                   *)
C28_SubtractionOrder ==
    (AskedIL /\ Succeeded /\ Instr.mnemonic \in {"sub", "cmp", "subc"}) =>
        /\ Len(Ops) >= 1
        /\ Instr.mnemonic = "sub" => Written(Ops[1]) = C28_DstMinusSrc
        /\ Instr.mnemonic = "cmp" => Ops[1] = C28_DstMinusSrc
        /\ Instr.mnemonic = "subc" =>
               Written(Ops[1]).args[1] = C28_DstMinusSrc

-----------------------------------------------------------------------------
(* C29: an emulated br has type 2, and its tokens are the mnemonic and the *)
(* source operand's tokens only, with no "," and no pc token.              *)
C29_BrIsSingleOperand ==
    (AskedText /\ Succeeded /\ Instr.mnemonic = "br") =>
        /\ Instr.type = Some(2)
        /\ Answered
        /\ LET tokens == Answer.tokens
               texts  == [i \in 1..Len(tokens) |-> tokens[i].text]
           IN  /\ Len(tokens) >= 1
               /\ SubSeq(texts, 2, Len(texts))
                      = C11_OperandTexts(Val(Instr.src))
               /\ \A i \in 1..Len(tokens) : tokens[i].text \notin {",", "pc"}

-----------------------------------------------------------------------------
(* C30: the offset-mode value of a jump decoded at a 16-bit address is a   *)
(* 16-bit address: address + 2 + offset reduced modulo 2^16.               *)
C30_TargetIs16Bit ==
    (Decoded /\ Succeeded /\ Instr.type = Some(3) /\ address \in 0..65535) =>
        /\ Val(Instr.src).mode = OFFSET
        /\ Val(Val(Instr.src).value) \in 0..65535

====
